---------------------------- MODULE Spec2Model ----------------------------
(***************************************************************************)
(* The Prediction Gateway: a serverless handler that validates a request,  *)
(* forwards the product specs to the Gemini completion endpoint and relays *)
(* (enhanced handler: after sanitising) the generated JSON.                *)
(*                                                                         *)
(* Two implementations live in the repository and both are modelled:       *)
(*   impl = "enhanced"  src/netlify/functions/predict.js                   *)
(*   impl = "simple"    src/unnamed/part_000                               *)
(***************************************************************************)
EXTENDS Integers, Sequences, FiniteSets, TLC

VARIABLES
    impl,           \* which handler serves the request
    event,          \* the inbound request: [httpMethod, body]
    apiKey,         \* process.env.GEMINI_API_KEY
    key,            \* the handler's const apiKey, read from the environment
    pc,             \* the last stage completed, or the await the handler is suspended at
    specs,          \* the specs extracted from the request body
    outbound,       \* the requests sent to the AI service, in order
    upstream,       \* what the AI service call produced
    generatedText,  \* the text extracted from the service's envelope
    result,         \* the parsed (enhanced: sanitised) prediction
    response,       \* the response returned to the platform
    responses,      \* how many responses were returned
    site,           \* which return statement produced the response
    trace           \* the stages visited, in order

vars == <<impl, event, apiKey, key, pc, specs, outbound, upstream, generatedText,
          result, response, responses, site, trace>>

(***************************************************************************)
(* JavaScript values.  Every value is a record tagged by its type.  A      *)
(* string is a sequence of parts; a part is either a run [c, n] (the chunk *)
(* c repeated n times) or [json |-> v], the JSON serialisation of v.       *)
(***************************************************************************)
Undefined == [t |-> "undefined"]
Null == [t |-> "null"]
Bool(b) == [t |-> "bool", b |-> b]
Num(n) == [t |-> "num", num |-> n]
Str(parts) == [t |-> "str", s |-> parts]
Arr(a) == [t |-> "arr", a |-> a]
Obj(o) == [t |-> "obj", o |-> o]

Run(c, n) == [c |-> c, n |-> n]
Lit(text) == Str(<<Run(text, 1)>>)
EmptyString == Str(<<>>)
EmptyObject == Obj(<<>>)

IsRun(p) == "c" \in DOMAIN p
IsWhitespace(p) == IsRun(p) /\ p.c = " "

\* String.prototype.length, for strings made of runs.
RECURSIVE PartsLen(_)
PartsLen(parts) ==
    IF parts = <<>> THEN 0
    ELSE Len(Head(parts).c) * Head(parts).n + PartsLen(Tail(parts))

StrLen(v) == PartsLen(v.s)

\* String.prototype.trim: leading and trailing whitespace removed.
RECURSIVE TrimLeft(_)
TrimLeft(parts) ==
    IF parts # <<>> /\ IsWhitespace(Head(parts)) THEN TrimLeft(Tail(parts))
    ELSE parts

RECURSIVE TrimRight(_)
TrimRight(parts) ==
    IF parts # <<>> /\ IsWhitespace(parts[Len(parts)])
    THEN TrimRight(SubSeq(parts, 1, Len(parts) - 1))
    ELSE parts

Trim(v) == Str(TrimRight(TrimLeft(v.s)))

\* String.prototype.substring(0, k), for strings made of single-character runs.
RECURSIVE PartsPrefix(_, _)
PartsPrefix(parts, k) ==
    IF parts = <<>> \/ k <= 0 THEN <<>>
    ELSE IF Head(parts).n <= k
         THEN <<Head(parts)>> \o PartsPrefix(Tail(parts), k - Head(parts).n)
         ELSE <<Run(Head(parts).c, k)>>

Substring0(v, k) == Str(PartsPrefix(v.s, k))

\* Template literals and string concatenation.
Concat(a, b) == Str(a.s \o b.s)

\* Whether the string a has the (non-empty) string b as a substring.
Contains(a, b) ==
    /\ b.s # <<>>
    /\ \E i \in 1..Len(a.s) :
          /\ i + Len(b.s) - 1 <= Len(a.s)
          /\ SubSeq(a.s, i, i + Len(b.s) - 1) = b.s

\* ToBoolean.
Truthy(v) ==
    CASE v.t = "undefined" -> FALSE
      [] v.t = "null" -> FALSE
      [] v.t = "bool" -> v.b
      [] v.t = "num" -> v.num # 0
      [] v.t = "str" -> v.s # <<>>
      [] OTHER -> TRUE

\* typeof v === 'string'
IsString(v) == v.t = "str"

\* v < 0.  The strings of the model hold no digits, so ToNumber gives NaN
\* (or 0 for a blank string); null, booleans, arrays and objects never
\* convert to a negative number here.
LessThanZero(v) == v.t = "num" /\ v.num < 0

\* v.k for a value that is neither null nor undefined.
Prop(v, k) ==
    IF v.t = "obj" /\ k \in DOMAIN v.o THEN v.o[k] ELSE Undefined

\* v[i] (0-based) for a value that is neither null nor undefined.
Index(v, i) ==
    IF v.t = "arr" /\ i + 1 \in DOMAIN v.a THEN v.a[i + 1] ELSE Undefined

Nullish(v) == v.t \in {"undefined", "null"}

\* v?.k and v?.[i]
OptProp(v, k) == IF Nullish(v) THEN Undefined ELSE Prop(v, k)
OptIndex(v, i) == IF Nullish(v) THEN Undefined ELSE Index(v, i)

(***************************************************************************)
(* JSON.parse and JSON.stringify.  A string parses iff, surrounding        *)
(* whitespace aside, it is the serialisation of one JSON value.            *)
(***************************************************************************)
SyntaxErrorMessage == Lit("SyntaxError: <JSON.parse message>")
TypeErrorMessage == Lit("TypeError: <property access on a non-object>")

Ok(v) == [ok |-> TRUE, val |-> v]
Throw(msg) == [ok |-> FALSE, message |-> msg]

JSONparse(text) ==
    LET core == Trim(text).s
    IN IF Len(core) = 1 /\ ~IsRun(core[1]) THEN Ok(core[1].json)
       ELSE Throw(SyntaxErrorMessage)

\* JSON.stringify of an object literal: properties holding undefined are dropped.
JSONstringify(v) ==
    IF v.t = "obj"
    THEN Str(<<[json |-> Obj([k \in {f \in DOMAIN v.o : v.o[f] # Undefined} |-> v.o[k]])]>>)
    ELSE Str(<<[json |-> v]>>)

(***************************************************************************)
(* Bounds of the explored inputs, and the program's constants.             *)
(***************************************************************************)
MaxPrice == 2
Slack == 1

MaxSpecsLength == 2000
ExcerptLength == 200

\* new Date().toISOString()
Now == Lit("<now>")

(***************************************************************************)
(* The enhanced handler, src/netlify/functions/predict.js                  *)
(***************************************************************************)
\* A header set that leaves OPTIONS out of the allowed methods.
headersPostOnly ==
    ("Access-Control-Allow-Origin" :> "*") @@
    ("Access-Control-Allow-Headers" :> "Content-Type") @@
    ("Access-Control-Allow-Methods" :> "POST") @@
    ("Content-Type" :> "application/json")

\* predict.js:9-14
headers ==
    ("Access-Control-Allow-Origin" :> "*") @@
    ("Access-Control-Allow-Headers" :> "Content-Type") @@
    ("Access-Control-Allow-Methods" :> "POST, OPTIONS") @@
    ("Content-Type" :> "application/json")

Resp(status, body) ==
    [statusCode |-> status, headers |-> headers, body |-> JSONstringify(Obj(body))]

\* predict.js:19-23
Preflight == Resp(200, [message |-> Lit("CORS preflight")])

\* predict.js:28-35
MethodNotAllowed ==
    Resp(405, [error |-> Lit("Method Not Allowed. Only POST requests are supported."),
               allowedMethods |-> Arr(<<Lit("POST")>>)])

\* predict.js:43-50
InvalidJson(parseError) ==
    Resp(400, [error |-> Lit("Invalid JSON in request body."),
               details |-> parseError])

\* predict.js:57-64
MissingSpecs ==
    Resp(400, [error |-> Lit("Product specifications are required and must be a non-empty string."),
               example |-> Lit("iPhone 15 Pro 256GB used condition")])

\* predict.js:69-75
SpecsTooLong ==
    Resp(400, [error |-> Lit("Product specifications are too long. Please limit to 2000 characters.")])

\* predict.js:82-89
MissingApiKey ==
    Resp(500, [error |-> Lit("Server configuration error. API key not available."),
               code |-> Lit("MISSING_API_KEY")])

\* A message mapping that forgets the forbidden status.
UserMessageWithoutForbidden(status) ==
    IF status = 429 THEN Lit("Too many requests. Please wait a moment and try again.")
    ELSE Lit("AI service temporarily unavailable. Please try again.")

\* predict.js:257-262
UserMessage(status) ==
    IF status = 429 THEN Lit("Too many requests. Please wait a moment and try again.")
    ELSE IF status = 403 THEN Lit("API access restricted. Please contact support.")
    ELSE Lit("AI service temporarily unavailable. Please try again.")

\* predict.js:243-248: the error body if it parses, else { message: statusText }
ErrorDetails(reply) ==
    LET parsed == JSONparse(reply.body)
    IN IF parsed.ok THEN parsed.val ELSE Obj([message |-> reply.statusText])

\* predict.js:270: errorDetails?.error?.message || response.statusText
ErrorDetailsMessage(reply) ==
    LET m == OptProp(OptProp(ErrorDetails(reply), "error"), "message")
    IN IF Truthy(m) THEN m ELSE reply.statusText

\* predict.js:264-272
UpstreamError(reply) ==
    Resp(reply.status,
         [error |-> UserMessage(reply.status),
          code |-> Concat(Lit("GEMINI_"), JSONstringify(Num(reply.status))),
          details |-> ErrorDetailsMessage(reply)])

\* predict.js:281-288
NoAiResponse ==
    Resp(500, [error |-> Lit("AI model did not generate a response. Please try with different product specifications."),
               code |-> Lit("NO_AI_RESPONSE")])

\* predict.js:315-323
InvalidAiJson(parseError) ==
    Resp(500, [error |-> Lit("AI response format error. Please try again with clearer product specifications."),
               code |-> Lit("INVALID_AI_JSON"),
               details |-> parseError])

\* predict.js:327-331
Success(res) ==
    [statusCode |-> 200, headers |-> headers, body |-> JSONstringify(res)]

\* predict.js:346-354
ServerError(error) ==
    Resp(500, [error |-> Lit("Internal server error. Please try again later."),
               code |-> Lit("SERVER_ERROR"),
               timestamp |-> Now])

\* predict.js:41: event.body || "{}"
BodyText(ev) == IF Truthy(ev.body) THEN ev.body ELSE JSONstringify(EmptyObject)

\* predict.js:56
SpecsInvalid(sp) == ~Truthy(sp) \/ ~IsString(sp) \/ Trim(sp) = EmptyString

\* A length check that is off by one.
SpecsOverLimitOffByOne(sp) == StrLen(Trim(sp)) >= MaxSpecsLength

\* predict.js:68
SpecsOverLimit(sp) == StrLen(Trim(sp)) > MaxSpecsLength

\* predict.js:93
ApiUrl(k) ==
    Concat(Lit("https://generativelanguage.googleapis.com/v1beta/models/gemini-2.0-flash-exp:generateContent?key="), k)

\* predict.js:124-137, 140-227: the user query embeds the trimmed specs; the
\* system instruction, tools, generation parameters and schema are fixed data.
Payload(sp) ==
    [contents |-> Concat(Concat(Lit("Predict the current market price in India for this product: \""), Trim(sp)),
                         Lit("\" <analysis instructions>")),
     systemInstruction |-> "Indian market analyst",
     responseMimeType |-> "application/json",
     responseSchema |-> TRUE]

\* predict.js:277
GeneratedText(aiData) ==
    OptProp(OptIndex(OptProp(OptProp(OptIndex(OptProp(aiData, "candidates"), 0),
                                     "content"), "parts"), 0), "text")

\* predict.js:242 (node-fetch: response.ok)
ResponseOk(status) == status >= 200 /\ status < 300

\* predict.js:297-299: result.last_updated = now, when it is not set
WithLastUpdated(res) ==
    IF Truthy(Prop(res, "last_updated")) THEN res
    ELSE Obj([k \in DOMAIN res.o \cup {"last_updated"} |->
                 IF k = "last_updated" THEN Now ELSE res.o[k]])

\* predict.js:302
RequiredFieldsMissing(res) ==
    \/ ~Truthy(Prop(res, "predicted_price_inr"))
    \/ ~Truthy(Prop(res, "range_inr"))
    \/ ~Truthy(Prop(res, "product"))

\* predict.js:307
NegativePrices(res) ==
    \/ LessThanZero(Prop(res, "predicted_price_inr"))
    \/ LessThanZero(Prop(Prop(res, "range_inr"), "min"))
    \/ LessThanZero(Prop(Prop(res, "range_inr"), "max"))

MissingFieldsMessage == Lit("Missing required fields in AI response")
NegativePricesMessage == Lit("Invalid negative prices in AI response")

\* predict.js:293-324: the try block's outcome, Ok(result) or the caught error
SanitizeEnhanced(text) ==
    LET parsed == JSONparse(text)
    IN IF ~parsed.ok THEN parsed
       ELSE IF parsed.val.t # "obj"
            \* null has no properties to read; a primitive cannot take the new
            \* property (the module is strict code); an array has no price field
            THEN IF parsed.val.t = "arr" THEN Throw(MissingFieldsMessage)
                 ELSE Throw(TypeErrorMessage)
       ELSE LET res == WithLastUpdated(parsed.val)
            IN IF RequiredFieldsMissing(res) THEN Throw(MissingFieldsMessage)
               ELSE IF NegativePrices(res) THEN Throw(NegativePricesMessage)
               ELSE Ok(res)

(***************************************************************************)
(* The simple handler, src/unnamed/part_000                                *)
(***************************************************************************)
\* part_000:5-10
simpleHeaders ==
    ("Access-Control-Allow-Origin" :> "*") @@
    ("Access-Control-Allow-Headers" :> "Content-Type") @@
    ("Access-Control-Allow-Methods" :> "POST, OPTIONS") @@
    ("Content-Type" :> "application/json")

SimpleResp(status, body) ==
    [statusCode |-> status, headers |-> simpleHeaders, body |-> JSONstringify(Obj(body))]

\* part_000:15-19
SimplePreflight == SimpleResp(200, [message |-> Lit("CORS preflight")])

\* part_000:24-28
SimpleMethodNotAllowed == SimpleResp(405, [error |-> Lit("Method Not Allowed")])

\* part_000:36-40
SimpleInvalidJson == SimpleResp(400, [error |-> Lit("Invalid JSON in request body")])

\* part_000:47-53
SimpleMissingSpecs ==
    SimpleResp(400, [error |-> Lit("Product specifications are required and must be a non-empty string")])

\* part_000:60-64
SimpleMissingApiKey == SimpleResp(500, [error |-> Lit("Server configuration error")])

\* part_000:107-114
SimpleUpstreamError(reply) ==
    SimpleResp(reply.status,
               [error |-> Lit("AI service error"),
                details |-> Concat(Lit("HTTP "), JSONstringify(Num(reply.status)))])

\* part_000:122-126
SimpleNoAiResponse == SimpleResp(500, [error |-> Lit("No AI response generated")])

\* part_000:135-142
SimpleInvalidAiJson(text) ==
    SimpleResp(500, [error |-> Lit("Invalid AI response format"),
                     raw_response |-> Substring0(text, ExcerptLength)])

\* part_000:147-151
SimpleSuccess(res) ==
    [statusCode |-> 200, headers |-> simpleHeaders, body |-> JSONstringify(res)]

\* part_000:155-162
SimpleServerError(error) ==
    SimpleResp(500, [error |-> Lit("Internal server error"),
                     message |-> error])

\* part_000:70-95: the prompt embeds the trimmed specs and the current time
SimplePayload(sp) ==
    [contents |-> Concat(Concat(Concat(Lit("You are an Indian market price analyst. Predict the current market price in India for: \""),
                                       Trim(sp)),
                                Lit("\" <format instructions> ")), Now),
     responseMimeType |-> "application/json"]

(***************************************************************************)
(* The AI service and the HTTP client (node-fetch).                        *)
(***************************************************************************)
\* fetch rejects on a network failure; the error names the requested URL
FetchErrorMessage(url) ==
    Concat(Concat(Lit("request to "), url), Lit(" failed, reason: <network failure>"))

\* response.json() rejects on a body that is not JSON; the error names the URL
BodyErrorMessage(url) ==
    Concat(Concat(Lit("invalid json response body at "), url), Lit(" reason: <parser message>"))

\* response.json()
ResponseJson(reply, url) ==
    LET parsed == JSONparse(reply.body)
    IN IF parsed.ok THEN parsed ELSE Throw(BodyErrorMessage(url))

\* response.statusText: the standard reason phrase of the status.
StatusText(status) ==
    CASE status = 200 -> Lit("OK")
      [] status = 201 -> Lit("Created")
      [] status = 400 -> Lit("Bad Request")
      [] status = 403 -> Lit("Forbidden")
      [] status = 404 -> Lit("Not Found")
      [] status = 429 -> Lit("Too Many Requests")
      [] status = 500 -> Lit("Internal Server Error")
      [] status = 503 -> Lit("Service Unavailable")

\* The reason phrases a server may send with a status: the standard one, or none.
StatusTexts(status) == {StatusText(status), EmptyString}

\* The completion envelope that carries the generated text.
Envelope(text) ==
    Obj([candidates |-> Arr(<<Obj([content |-> Obj([parts |-> Arr(<<Obj([text |-> text])>>)])])>>)])

\* An object literal without the properties given as Undefined.
MkObj(f) == Obj([k \in {x \in DOMAIN f : f[x] # Undefined} |-> f[k]])

Prices == {Undefined} \cup {Num(n) : n \in -1..MaxPrice}

Ranges ==
    {Undefined, Null, Num(7)} \cup
    {MkObj([min |-> lo, max |-> hi]) : lo \in Prices, hi \in Prices}

\* The JSON values the service may generate.
GenValues ==
    {Null, Num(5), Bool(TRUE), Lit("plain"), Arr(<<>>), EmptyObject,
     Obj([predicted_price_inr |-> Lit("cheap"),
          range_inr |-> Obj([min |-> Lit("low"), max |-> Lit("high")]),
          product |-> Lit("Phone")])} \cup
    {MkObj([predicted_price_inr |-> p, range_inr |-> r, product |-> n,
            last_updated |-> u, confidence |-> Num(1),
            category |-> Lit("Electronics"),
            specs_extracted |-> Obj([storage |-> Lit("256GB")]),
            explanation_bullets |-> Arr(<<Lit("one"), Lit("two"), Lit("three")>>),
            anomalies |-> Arr(<<>>),
            market_sources |-> Arr(<<Lit("Amazon India")>>)]) :
        p \in Prices, r \in Ranges,
        n \in {Undefined, EmptyString, Lit("Phone")},
        u \in {Undefined, Lit("2024-01-01T00:00:00.000Z")}}

\* Generated texts that are not JSON.
RawTexts ==
    {Str(<<Run(" ", 2)>>), Str(<<Run("x", 1)>>),
     Str(<<Run("{", 1), Run("x", ExcerptLength + Slack)>>)} \cup
    {Str(<<Run("x", n)>>) : n \in (ExcerptLength - Slack)..(ExcerptLength + Slack)}

GeneratedTexts ==
    {EmptyString} \cup RawTexts \cup {JSONstringify(v) : v \in GenValues}

OkBodies ==
    {Lit("<html>"), JSONstringify(Null), JSONstringify(EmptyObject),
     JSONstringify(Obj([candidates |-> Arr(<<>>)]))} \cup
    {JSONstringify(Envelope(text)) : text \in GeneratedTexts}

ErrorBodies ==
    {Lit("<html>"), JSONstringify(Null), JSONstringify(EmptyObject),
     JSONstringify(Obj([error |-> Obj([message |-> Lit("Quota exceeded")])]))}

UpstreamStatuses == {200, 201, 400, 403, 404, 429, 500, 503}

NoUpstream == [kind |-> "none"]

UpstreamReplies(url) ==
    {[kind |-> "throw", message |-> FetchErrorMessage(url)]} \cup
    {[kind |-> "response", status |-> st, statusText |-> StatusText(st), body |-> b] :
        st \in {x \in UpstreamStatuses : ResponseOk(x)}, b \in OkBodies} \cup
    UNION {{[kind |-> "response", status |-> st, statusText |-> tx, body |-> b] :
               tx \in StatusTexts(st), b \in ErrorBodies} :
           st \in {x \in UpstreamStatuses : ~ResponseOk(x)}}

(***************************************************************************)
(* The requests and environments explored.                                 *)
(***************************************************************************)
Methods == {"OPTIONS", "POST", "GET", "DELETE"}

SpecsStrings ==
    {EmptyString, Str(<<Run(" ", 3)>>), Str(<<Run("a", 5)>>),
     Str(<<Run(" ", 1), Run("a", MaxSpecsLength), Run(" ", 1)>>),
     Str(<<Run(" ", 2), Run("a", MaxSpecsLength + Slack)>>)} \cup
    {Str(<<Run("a", n)>>) : n \in (MaxSpecsLength - Slack)..(MaxSpecsLength + Slack)}

SpecsValues ==
    SpecsStrings \cup
    {Null, Num(0), Num(7), Bool(TRUE), Bool(FALSE), Arr(<<>>), Arr(<<Lit("a")>>), EmptyObject}

Bodies ==
    {Null, EmptyString, Str(<<Run("{", 1), Run("a", 3)>>),
     JSONstringify(Null), JSONstringify(Num(5)), JSONstringify(Lit("specs")),
     JSONstringify(Arr(<<>>)), JSONstringify(EmptyObject),
     JSONstringify(Obj([other |-> Lit("a")]))} \cup
    {JSONstringify(Obj([specs |-> v])) : v \in SpecsValues}

SecretKey == Lit("<GEMINI_API_KEY>")

ApiKeys == {Undefined, EmptyString, SecretKey}

NoResponse == [statusCode |-> 0]

Init ==
    /\ impl \in {"enhanced", "simple"}
    /\ event \in [httpMethod : Methods, body : Bodies]
    /\ apiKey \in ApiKeys
    /\ key = Undefined
    /\ pc = "Received"
    /\ specs = Undefined
    /\ outbound = <<>>
    /\ upstream = NoUpstream
    /\ generatedText = Undefined
    /\ result = Undefined
    /\ response = NoResponse
    /\ responses = 0
    /\ site = "none"
    /\ trace = <<"Received">>

\* A return statement: the handler's promise resolves with r.
Return(r, s) ==
    /\ response' = r
    /\ responses' = responses + 1
    /\ site' = s
    /\ pc' = "Responded"
    /\ trace' = Append(trace, "Responded")

\* The request moves on to the next stage.
Advance(stage) ==
    /\ pc' = stage
    /\ trace' = Append(trace, stage)
    /\ UNCHANGED <<response, responses, site>>

\* The handler is suspended at an await; the event loop runs other callbacks.
Yield(position) ==
    /\ pc' = position
    /\ UNCHANGED <<trace, response, responses, site>>

\* The top-level catch block.
Catch(error) ==
    Return(IF impl = "enhanced" THEN ServerError(error) ELSE SimpleServerError(error),
           "serverError")

\* Method dispatch.
Route ==
    /\ pc = "Received"
    /\ IF event.httpMethod = "OPTIONS"
       THEN Return(IF impl = "enhanced" THEN Preflight ELSE SimplePreflight, "preflight")
       ELSE IF event.httpMethod # "POST"
       THEN Return(IF impl = "enhanced" THEN MethodNotAllowed ELSE SimpleMethodNotAllowed,
                   "methodNotAllowed")
       ELSE Advance("Routed")
    /\ UNCHANGED <<impl, event, apiKey, key, specs, outbound, upstream, generatedText, result>>

\* Body parsing and specs validation.
Validate ==
    /\ pc = "Routed"
    /\ LET parsed == JSONparse(BodyText(event))
       IN IF ~parsed.ok
          THEN /\ Return(IF impl = "enhanced" THEN InvalidJson(parsed.message)
                         ELSE SimpleInvalidJson, "invalidJson")
               /\ UNCHANGED specs
          ELSE IF Nullish(parsed.val)
          \* const { specs } = null throws a TypeError
          THEN Catch(TypeErrorMessage) /\ UNCHANGED specs
          ELSE LET sp == Prop(parsed.val, "specs")
               IN /\ specs' = sp
                  /\ IF SpecsInvalid(sp)
                     THEN Return(IF impl = "enhanced" THEN MissingSpecs
                                 ELSE SimpleMissingSpecs, "missingSpecs")
                     ELSE IF impl = "enhanced" /\ SpecsOverLimit(sp)
                     THEN Return(SpecsTooLong, "specsTooLong")
                     ELSE Advance("Validated")
    /\ UNCHANGED <<impl, event, apiKey, key, outbound, upstream, generatedText, result>>

\* Credential check and construction of the outbound request.
BuildPrompt ==
    /\ pc = "Validated"
    /\ key' = apiKey
    /\ IF ~Truthy(apiKey)
       THEN Return(IF impl = "enhanced" THEN MissingApiKey ELSE SimpleMissingApiKey,
                   "missingApiKey")
       ELSE Advance("PromptBuilt")
    /\ UNCHANGED <<impl, event, apiKey, specs, outbound, upstream, generatedText, result>>

\* The outbound request of the handler.
OutboundRequest ==
    [url |-> ApiUrl(key),
     method |-> "POST",
     body |-> IF impl = "enhanced" THEN Payload(specs) ELSE SimplePayload(specs)]

\* fetch(apiUrl, ...) is called: the request is sent and the handler is
\* suspended at the await until the call settles.
Fetch ==
    /\ pc = "PromptBuilt"
    /\ outbound' = Append(outbound, OutboundRequest)
    /\ Yield("AwaitingFetch")
    /\ UNCHANGED <<impl, event, apiKey, key, specs, upstream, generatedText, result>>

\* The fetch settles: it rejects, or resolves with a response whose status is
\* known and whose body is still unread.  The simple handler returns on a
\* non-success status without reading the body.
FetchSettles ==
    /\ pc = "AwaitingFetch"
    /\ \E reply \in UpstreamReplies(outbound[1].url) :
          /\ upstream' = reply
          /\ IF reply.kind = "throw"
             THEN Catch(reply.message)
             ELSE IF impl = "simple" /\ ~ResponseOk(reply.status)
             THEN Return(SimpleUpstreamError(reply), "upstreamError")
             ELSE Yield("AwaitingBody")
    /\ UNCHANGED <<impl, event, apiKey, key, specs, outbound, generatedText, result>>

\* response.json() settles: the error body of a non-success response
\* (enhanced handler), or the completion envelope and its generated text.
ReadBody ==
    /\ pc = "AwaitingBody"
    /\ IF ~ResponseOk(upstream.status)
       THEN Return(UpstreamError(upstream), "upstreamError") /\ UNCHANGED generatedText
       ELSE LET aiData == ResponseJson(upstream, outbound[1].url)
            IN IF ~aiData.ok
               THEN Catch(aiData.message) /\ UNCHANGED generatedText
               ELSE IF ~Truthy(GeneratedText(aiData.val))
               THEN /\ Return(IF impl = "enhanced" THEN NoAiResponse
                              ELSE SimpleNoAiResponse, "noAiResponse")
                    /\ UNCHANGED generatedText
               ELSE /\ generatedText' = GeneratedText(aiData.val)
                    /\ Advance("UpstreamInvoked")
    /\ UNCHANGED <<impl, event, apiKey, key, specs, outbound, upstream, result>>

\* Another callback changes process.env.GEMINI_API_KEY while the handler is
\* suspended at an await.
SetApiKey ==
    /\ pc \in {"AwaitingFetch", "AwaitingBody"}
    /\ \E k \in ApiKeys \ {apiKey} : apiKey' = k
    /\ UNCHANGED <<impl, event, key, pc, specs, outbound, upstream, generatedText,
                   result, response, responses, site, trace>>

\* Parsing (enhanced: and validation) of the generated text.
Sanitize ==
    /\ pc = "UpstreamInvoked"
    /\ IF impl = "enhanced"
       THEN LET out == SanitizeEnhanced(generatedText)
            IN IF out.ok
               THEN result' = out.val /\ Advance("Sanitized")
               ELSE Return(InvalidAiJson(out.message), "invalidAiJson") /\ UNCHANGED result
       ELSE LET parsed == JSONparse(generatedText)
            IN IF ~parsed.ok
               THEN /\ Return(SimpleInvalidAiJson(generatedText), "invalidAiJson")
                    /\ UNCHANGED result
               ELSE IF Nullish(parsed.val)
               \* console.log(..., result.product) throws a TypeError on null
               THEN Catch(TypeErrorMessage) /\ UNCHANGED result
               ELSE result' = parsed.val /\ Advance("Sanitized")
    /\ UNCHANGED <<impl, event, apiKey, key, specs, outbound, upstream, generatedText>>

\* The successful return.
Respond ==
    /\ pc = "Sanitized"
    /\ Return(IF impl = "enhanced" THEN Success(result) ELSE SimpleSuccess(result),
              "success")
    /\ UNCHANGED <<impl, event, apiKey, key, specs, outbound, upstream, generatedText, result>>

Next ==
    \/ Route \/ Validate \/ BuildPrompt \/ Fetch \/ FetchSettles \/ ReadBody
    \/ Sanitize \/ Respond \/ SetApiKey

Spec == Init /\ [][Next]_vars

(***************************************************************************)
(* Vocabulary of the properties.                                           *)
(***************************************************************************)
Done == pc = "Responded"
Enhanced == impl = "enhanced"

\* The response body, as the caller parses it.
Body == JSONparse(response.body).val
BodyHas(k) == Body.t = "obj" /\ k \in DOMAIN Body.o

\* The request body as the JSON value it denotes, when it denotes one.
RequestParses == JSONparse(BodyText(event)).ok
RequestValue == JSONparse(BodyText(event)).val

\* The specs the request carries: absent unless the body is an object with a
\* specs property.
RequestSpecs ==
    IF RequestValue.t = "obj" /\ "specs" \in DOMAIN RequestValue.o
    THEN RequestValue.o.specs ELSE Undefined

IsBlank(v) == \A i \in DOMAIN v.s : v.s[i].c = " "

\* Empty, whitespace-only, not a string, or absent.
UnusableSpecs(v) == v.t # "str" \/ IsBlank(v)

\* A valid PredictionRequest: non-empty after trim, at most 2000 characters.
ValidSpecs(v) ==
    /\ v.t = "str"
    /\ ~IsBlank(v)
    /\ StrLen(Trim(v)) <= 2000

IsNum(v) == v.t = "num"
NonNegative(v) == IsNum(v) /\ v.num >= 0

\* The PredictionResult price invariant of the data model.
PriceInvariant(v) ==
    /\ v.t = "obj"
    /\ {"predicted_price_inr", "range_inr"} \subseteq DOMAIN v.o
    /\ NonNegative(v.o.predicted_price_inr)
    /\ v.o.range_inr.t = "obj"
    /\ {"min", "max"} \subseteq DOMAIN v.o.range_inr.o
    /\ NonNegative(v.o.range_inr.o.min)
    /\ NonNegative(v.o.range_inr.o.max)
    /\ v.o.range_inr.o.min.num <= v.o.range_inr.o.max.num

IsStringArray(v) == v.t = "arr" /\ \A i \in DOMAIN v.a : v.a[i].t = "str"

\* Schema-conforming JSON (last_updated aside, which the handler may add).
Conforming(v) ==
    /\ PriceInvariant(v)
    /\ {"product", "category", "confidence", "specs_extracted",
        "explanation_bullets", "anomalies", "market_sources"} \subseteq DOMAIN v.o
    /\ v.o.product.t = "str"
    /\ v.o.category.t = "str"
    /\ IsNum(v.o.confidence) /\ v.o.confidence.num \in 0..1
    /\ v.o.specs_extracted.t = "obj"
    /\ IsStringArray(v.o.explanation_bullets)
    /\ Len(v.o.explanation_bullets.a) \in 3..8
    /\ IsStringArray(v.o.anomalies)
    /\ IsStringArray(v.o.market_sources)
    /\ "last_updated" \in DOMAIN v.o => Truthy(v.o.last_updated) /\ v.o.last_updated.t = "str"

\* The upstream answered with a success status and a generated text.
Generated == generatedText # Undefined
GeneratedParses == Generated /\ JSONparse(generatedText).ok
GeneratedValue == JSONparse(generatedText).val

(***************************************************************************)
(* The claims.                                                             *)
(***************************************************************************)

\* C1: in the enhanced handler, every POST whose body is valid JSON and whose
\* specs is empty, whitespace-only, not a string or absent (the body may be
\* null, a number, an array or {}) is answered with status 400, and the AI
\* service is never called.
C1_UnusableSpecsRejected ==
    (Enhanced /\ Done /\ event.httpMethod = "POST" /\ RequestParses
        /\ UnusableSpecs(RequestSpecs))
    => (response.statusCode = 400 /\ outbound = <<>>)

\* C2: in the enhanced handler, a valid specs string, the API key set and a
\* successful upstream whose generated text is schema-conforming JSON (a price
\* of 0 and any product string included) give status 200 with exactly that
\* JSON object as the body, last_updated added only if it was missing.
C2_ConformingResultRelayed ==
    (Enhanced /\ Done /\ event.httpMethod = "POST" /\ RequestParses
        /\ ValidSpecs(RequestSpecs) /\ Truthy(key)
        /\ GeneratedParses /\ Conforming(GeneratedValue))
    => /\ response.statusCode = 200
       /\ Body = IF "last_updated" \in DOMAIN GeneratedValue.o THEN GeneratedValue
                 ELSE Obj([k \in DOMAIN GeneratedValue.o \cup {"last_updated"} |->
                              IF k = "last_updated" THEN Now ELSE GeneratedValue.o[k]])

\* Whether the response body holds the credential in one of its strings.
BodyLeaksKey ==
    /\ Truthy(key)
    /\ Body.t = "obj"
    /\ \E k \in DOMAIN Body.o : Body.o[k].t = "str" /\ Contains(Body.o[k], key)

\* C3: no response body of either handler ever contains the value of
\* GEMINI_API_KEY, whatever path produced the response.
C3_NoCredentialInBody == Done => ~BodyLeaksKey

\* The awaits at which the handler is suspended between two stages.
Awaits == {"AwaitingFetch", "AwaitingBody"}

Rank(stage) ==
    CASE stage = "Received" -> 0
      [] stage = "Routed" -> 1
      [] stage = "Validated" -> 2
      [] stage = "PromptBuilt" -> 3
      [] stage = "UpstreamInvoked" -> 4
      [] stage = "Sanitized" -> 5
      [] stage = "Responded" -> 6

\* The credential was set when the handler ran up to its first await: the
\* environment changes only while the handler is suspended, that is after the
\* fetch, so before any fetch it still holds the value of that time.
CredentialSet == IF outbound = <<>> THEN Truthy(apiKey) ELSE Truthy(key)

\* The request passes method routing, input validation and the credential
\* check of the handler that serves it (the simple handler has no length limit).
PassesChecks ==
    /\ event.httpMethod = "POST"
    /\ RequestParses
    /\ IF Enhanced THEN ValidSpecs(RequestSpecs)
       ELSE ~UnusableSpecs(RequestSpecs)
    /\ CredentialSet

\* C4: a request goes through Received, Routed, Validated, PromptBuilt,
\* UpstreamInvoked, Sanitized, Responded in that order without revisiting a
\* stage and ends in exactly one response; it makes exactly one call to the AI
\* service before responding if it passes routing, validation and the
\* credential check, and no call at all otherwise.
C4_SinglePass ==
    /\ trace[1] = "Received"
    /\ trace[Len(trace)] = (IF pc \in Awaits THEN "PromptBuilt" ELSE pc)
    /\ \A i \in 1..(Len(trace) - 1) : Rank(trace[i]) < Rank(trace[i + 1])
    /\ responses = (IF Done THEN 1 ELSE 0)
    /\ (response # NoResponse) <=> Done
    /\ Len(outbound) <= 1
    /\ Done => (Len(outbound) = (IF PassesChecks THEN 1 ELSE 0))
    /\ pc \in Awaits \cup {"UpstreamInvoked", "Sanitized"} => Len(outbound) = 1
    /\ pc \in {"Received", "Routed", "Validated", "PromptBuilt"} => outbound = <<>>

C4_Witness ==
    /\ Enhanced /\ Done /\ site = "success"
    /\ Len(outbound) = 1 /\ responses = 1
    /\ trace = <<"Received", "Routed", "Validated", "PromptBuilt",
                 "UpstreamInvoked", "Sanitized", "Responded">>

DiagnosticFields == {"details", "raw_response", "message", "stack"}

\* The generated text could not be parsed by the server.
AiParseFailure == Generated /\ ~GeneratedParses

\* C5: in the enhanced handler a response body carries diagnostic detail only
\* when the server failed to parse the AI-generated text; no 400 response
\* (unparseable body, missing or invalid specs, specs too long) carries a
\* parser message or another diagnostic field.
C5_DetailOnlyForAiParseFailure ==
    (Enhanced /\ Done /\ event.httpMethod = "POST")
    => /\ (\E k \in DiagnosticFields : BodyHas(k)) => AiParseFailure
       /\ response.statusCode = 400 => \A k \in DiagnosticFields : ~BodyHas(k)

\* The generated JSON has the three required fields and a negative price.
NegativePriceResult ==
    /\ GeneratedParses
    /\ GeneratedValue.t = "obj"
    /\ {"predicted_price_inr", "range_inr", "product"} \subseteq DOMAIN GeneratedValue.o
    /\ IsNum(GeneratedValue.o.predicted_price_inr)
    /\ GeneratedValue.o.product.t = "str"
    /\ GeneratedValue.o.range_inr.t = "obj"
    /\ {"min", "max"} \subseteq DOMAIN GeneratedValue.o.range_inr.o
    /\ IsNum(GeneratedValue.o.range_inr.o.min)
    /\ IsNum(GeneratedValue.o.range_inr.o.max)
    /\ \/ GeneratedValue.o.predicted_price_inr.num < 0
       \/ GeneratedValue.o.range_inr.o.min.num < 0
       \/ GeneratedValue.o.range_inr.o.max.num < 0

\* C6: in the enhanced handler, generated JSON with the required fields
\* present and a negative predicted_price_inr, range_inr.min or range_inr.max
\* is answered with status 500 and an error that names the invalid price, not
\* the one given for unparseable text or for a missing field.
C6_NegativePriceNamed ==
    (Enhanced /\ Done /\ NegativePriceResult)
    => /\ response.statusCode = 500
       /\ BodyHas("details")
       /\ Body.o.details = Lit("Invalid negative prices in AI response")

\* C7: in the enhanced handler, generated text that is not valid JSON is
\* answered with status 500 and a body that includes an excerpt of the raw
\* text, truncated to at most 200 characters.
C7_RawExcerptReturned ==
    (Enhanced /\ Done /\ AiParseFailure)
    => /\ response.statusCode = 500
       /\ \E k \in DOMAIN Body.o :
             /\ Body.o[k].t = "str"
             /\ Body.o[k].s # <<>>
             /\ StrLen(Body.o[k]) <= 200
             /\ Body.o[k] = Substring0(generatedText, StrLen(Body.o[k]))

\* C8: in the enhanced handler, every non-success upstream status is
\* propagated as the response status; the message is the rate-limit one iff
\* the status is 429, the access-restricted one iff it is 403, and the generic
\* unavailable one otherwise, whether or not the error body is JSON.
C8_UpstreamStatusPropagated ==
    (Enhanced /\ Done /\ upstream.kind = "response"
        /\ ~(upstream.status \in 200..299))
    => /\ response.statusCode = upstream.status
       /\ BodyHas("error")
       /\ (Body.o.error = Lit("Too many requests. Please wait a moment and try again."))
            <=> (upstream.status = 429)
       /\ (Body.o.error = Lit("API access restricted. Please contact support."))
            <=> (upstream.status = 403)
       /\ (Body.o.error = Lit("AI service temporarily unavailable. Please try again."))
            <=> (upstream.status \notin {403, 429})

C8_Witness ==
    /\ Enhanced /\ Done /\ upstream.kind = "response"
    /\ upstream.status = 429 /\ response.statusCode = 429
    /\ ~JSONparse(upstream.body).ok
    /\ Body.o.error = Lit("Too many requests. Please wait a moment and try again.")

\* C9: every response of either handler, on every path, carries exactly the
\* four fixed headers.
C9_FixedHeaders ==
    Done =>
       /\ DOMAIN response.headers =
             {"Access-Control-Allow-Origin", "Access-Control-Allow-Headers",
              "Access-Control-Allow-Methods", "Content-Type"}
       /\ response.headers["Access-Control-Allow-Origin"] = "*"
       /\ response.headers["Access-Control-Allow-Headers"] = "Content-Type"
       /\ response.headers["Access-Control-Allow-Methods"] = "POST, OPTIONS"
       /\ response.headers["Content-Type"] = "application/json"

C9_Witness ==
    /\ Done /\ site = "serverError" /\ upstream.kind = "throw"
    /\ response.statusCode = 500
    /\ response.headers["Content-Type"] = "application/json"

\* C10: every status-200 response of the enhanced handler to a POST has a
\* body with predicted_price_inr a number >= 0, range_inr.min and
\* range_inr.max numbers >= 0, and range_inr.min <= range_inr.max.
C10_PriceInvariantOn200 ==
    (Enhanced /\ Done /\ event.httpMethod = "POST" /\ response.statusCode = 200)
    => PriceInvariant(Body)

=============================================================================
